---------------------------- MODULE Spec2Model ----------------------------
(***************************************************************************)
(* A model of src/bin/client.rs: the WebSocket frame decoder parse_frame   *)
(* and the per-connection read/decode loop of main.                        *)
(*                                                                         *)
(* Numbers wider than TLC's integers (u32, u64, usize) are vectors of      *)
(* 16-bit limbs, most significant limb first: a u32 is <<hi, lo>>, a u64   *)
(* or usize is <<l3, l2, l1, l0>>.  Arithmetic on them is done limb by     *)
(* limb with carries, so wrap-around and truncation are computed, not      *)
(* assumed.                                                                *)
(***************************************************************************)
EXTENDS Integers, Sequences, FiniteSets, TLC

VARIABLES
    build,          \* how the crate was compiled: overflow checks, width of usize
    gen,            \* how the input slice was made (description of the test input)
    bytes,          \* the slice handed to parse_frame in the last call
    result,         \* what that call returned (or that it panicked)
    sock,           \* bytes that arrived on the connection and were not read yet
    received,       \* bytes the handler has read from the connection, in order
    current_parse,  \* main's per-connection buffer
    consumed_total, \* sum of the n of every Ok((n, frame)) so far
    printed,        \* what the handler printed, in order
    pc              \* the handler: "idle" (no connection), "loop", "done" (after
                    \* break) or "panicked"

vars == <<build, gen, bytes, result, sock, received, current_parse,
          consumed_total, printed, pc>>

parseVars == <<gen, bytes, result>>
mainVars == <<sock, received, current_parse, consumed_total, printed, pc>>

---------------------------------------------------------------------------
(* Machine arithmetic *)

Limb == 256 * 256

\* a & b on non-negative integers
RECURSIVE BitAnd(_, _)
BitAnd(a, b) ==
    IF a = 0 \/ b = 0 THEN 0
    ELSE (a % 2) * (b % 2) + 2 * BitAnd(a \div 2, b \div 2)

\* (high as u64) << 8 | low as u64
U64FromBe2(high, low) == <<0, 0, 0, high * 256 + low>>

\* u64::from_be_bytes of an 8-byte slice
U64FromBe8(s) ==
    <<s[1] * 256 + s[2], s[3] * 256 + s[4], s[5] * 256 + s[6], s[7] * 256 + s[8]>>

\* u32::from_be_bytes of a 4-byte slice
U32FromBe4(s) == <<s[1] * 256 + s[2], s[3] * 256 + s[4]>>

\* a small non-negative integer as u64 / usize
Wide(n) == <<0, 0, n \div Limb, n % Limb>>

\* `x as usize` for a u64 x: the low pointer_width bits
AsUsize(x) ==
    IF build.pointer_width = 64 THEN x ELSE <<0, 0, x[3], x[4]>>

\* a + b on usize: the wrapped sum, and whether it left the range of usize
UsizeAdd(a, b) ==
    LET s4 == a[4] + b[4]
        s3 == a[3] + b[3] + s4 \div Limb
        s2 == a[2] + b[2] + s3 \div Limb
        s1 == a[1] + b[1] + s2 \div Limb
    IN  IF build.pointer_width = 64
        THEN [val |-> <<s1 % Limb, s2 % Limb, s3 % Limb, s4 % Limb>>,
              overflow |-> s1 \div Limb # 0]
        ELSE [val |-> <<0, 0, s3 % Limb, s4 % Limb>>,
              overflow |-> s3 \div Limb # 0]

\* a < b on limb vectors of the same length
RECURSIVE WideLess(_, _)
WideLess(a, b) ==
    IF a = <<>> THEN FALSE
    ELSE IF Head(a) # Head(b) THEN Head(a) < Head(b)
    ELSE WideLess(Tail(a), Tail(b))

\* the integer a usize stands for; used only where it is at most a slice length
WideToInt(x) == x[3] * Limb + x[4]

---------------------------------------------------------------------------
(* Values of the program's types *)

ParseError == {"Unfinished", "ReservedOpCode", "ReservedBit"}

OpCode == {"Continuation", "Text", "Binary", "Close", "Ping", "Pong"}

None == [some |-> FALSE, value |-> <<0, 0>>]
Some(v) == [some |-> TRUE, value |-> v]

NoFrame ==
    [is_last_frag |-> FALSE, op_code |-> "Continuation", masking_key |-> None,
     payload |-> <<>>]

Frame(fin, op, mask, payload) ==
    [is_last_frag |-> fin, op_code |-> op, masking_key |-> mask, payload |-> payload]

Ok(n, frame) == [tag |-> "Ok", err |-> "", consumed |-> n, frame |-> frame]
Err(e) == [tag |-> "Err", err |-> e, consumed |-> 0, frame |-> NoFrame]
\* the call did not return: the thread panicked at `site`
Panic(site) == [tag |-> "Panic", err |-> site, consumed |-> 0, frame |-> NoFrame]
NotCalled == [tag |-> "NotCalled", err |-> "", consumed |-> 0, frame |-> NoFrame]

\* bytes[from..to] with 0-based, end-exclusive indices, from <= to <= len
Slice(s, from, to) == SubSeq(s, from + 1, to)

---------------------------------------------------------------------------
(* parse_frame *)

\* let fin = byte0 & 0b1000000 != 0;   (the literal has seven digits: 64)
FinBit(byte0) == BitAnd(byte0, 64) # 0

\* ReservedBits with bit 6 left out of the mask (0b00110000)
ReservedBits_m(byte0) == BitAnd(byte0, 48)

\* byte0 & 0b01110000
ReservedBits(byte0) == BitAnd(byte0, 112)

\* OpCodeTable with one more arm: 0x3 => OpCode::Binary
OpCodeTable_m ==
    [n \in {0, 1, 2, 3, 8, 9, 10} |->
        CASE n = 0 -> "Continuation"
          [] n = 1 -> "Text"
          [] n = 2 -> "Binary"
          [] n = 3 -> "Binary"
          [] n = 8 -> "Close"
          [] n = 9 -> "Ping"
          [] n = 10 -> "Pong"]

\* the arms of `match op` that yield an OpCode
OpCodeTable ==
    [n \in {0, 1, 2, 8, 9, 10} |->
        CASE n = 0 -> "Continuation"
          [] n = 1 -> "Text"
          [] n = 2 -> "Binary"
          [] n = 8 -> "Close"
          [] n = 9 -> "Ping"
          [] n = 10 -> "Pong"]

\* whether `match op` reaches an arm other than `_ => return Err(ReservedOpCode)`
IsDefinedOp(op) == op \in DOMAIN OpCodeTable

OpCodeOf(op) == OpCodeTable[op]

\* let payload_len = match len { ... }: the u64, or the early return Unfinished
PayloadLen(s, len) ==
    CASE len = 126 ->
            IF Len(s) <= 2 THEN [ok |-> FALSE, val |-> Wide(0)]
            ELSE IF Len(s) <= 3 THEN [ok |-> FALSE, val |-> Wide(0)]
            ELSE [ok |-> TRUE, val |-> U64FromBe2(s[3], s[4])]
      [] len = 127 ->
            IF Len(s) < 10 THEN [ok |-> FALSE, val |-> Wide(0)]
            ELSE [ok |-> TRUE, val |-> U64FromBe8(Slice(s, 2, 10))]
      [] OTHER -> [ok |-> TRUE, val |-> Wide(len)]

\* let mask_offset = 2 + match len { 126 => 2, 127 => 8, _ => 0 };
MaskOffset(len) == 2 + (CASE len = 126 -> 2 [] len = 127 -> 8 [] OTHER -> 0)

\* let mask = if is_masked { ... } else { None }: the Option<u32>, the early
\* return Unfinished, or the panic of copy_from_slice, which requires the
\* source slice bytes[mask_offset..] to be exactly as long as the 4-byte target
MaskOf(s, is_masked, mask_offset) ==
    IF is_masked
    THEN IF Len(s) < mask_offset + 4
         THEN [ret |-> TRUE, res |-> Err("Unfinished"), val |-> None]
         ELSE LET src == Slice(s, mask_offset, Len(s)) IN
              IF Len(src) # 4
              THEN [ret |-> TRUE, res |-> Panic("copy_from_slice"), val |-> None]
              ELSE [ret |-> FALSE, res |-> NotCalled, val |-> Some(U32FromBe4(src))]
    ELSE [ret |-> FALSE, res |-> NotCalled, val |-> None]

\* from `let frame_end = ...` to the end of the function
FrameEnd(s, fin, op, mask, payload_offset, payload_len) ==
    LET sum == UsizeAdd(Wide(payload_offset), AsUsize(payload_len)) IN
    IF sum.overflow /\ build.overflow_checks
    THEN Panic("add overflow")
    ELSE LET frame_end == sum.val IN
         IF WideLess(Wide(Len(s)), frame_end)
         THEN Err("Unfinished")
         ELSE LET e == WideToInt(frame_end) IN
              IF payload_offset > e
              THEN Panic("slice start after end")
              ELSE Ok(e, Frame(fin, op, mask, Slice(s, payload_offset, e)))

parse_frame(s) ==
    IF Len(s) <= 0 THEN Err("Unfinished")
    ELSE IF Len(s) <= 1 THEN Err("Unfinished")
    ELSE
    LET byte0 == s[1]
        byte1 == s[2]
        fin == FinBit(byte0)
    IN  IF ReservedBits(byte0) # 0 THEN Err("ReservedBit")
        ELSE IF ~IsDefinedOp(BitAnd(byte0, 15)) THEN Err("ReservedOpCode")
        ELSE
        LET op == OpCodeOf(BitAnd(byte0, 15))
            is_masked == BitAnd(byte1, 128) # 0
            len == BitAnd(byte1, 127)
            payload_len == PayloadLen(s, len)
        IN  IF ~payload_len.ok THEN Err("Unfinished")
            ELSE
            LET mask_offset == MaskOffset(len)
                payload_offset == mask_offset + (IF is_masked THEN 4 ELSE 0)
                mask == MaskOf(s, is_masked, mask_offset)
            IN  IF mask.ret THEN mask.res
                ELSE FrameEnd(s, fin, op, mask.val, payload_offset, payload_len.val)

---------------------------------------------------------------------------
(* Inputs of parse_frame.  The encodings follow the wire layout the        *)
(* decoder reads: byte 0 = FIN, three reserved bits, opcode nibble; byte 1 *)
(* = MASK bit and 7-bit length field; 0, 2 or 8 big-endian length bytes;   *)
(* 4 key bytes when MASK is set; the payload.                              *)

MaxTail == 2        \* bytes after the two header bytes of an arbitrary input
MaxPayload == 3     \* payload lengths 0..MaxPayload with every length encoding
MaxWideTail == 5    \* bytes after a 64-bit length field of an arbitrary input

Builds == [overflow_checks : BOOLEAN, pointer_width : {32, 64}]

Byte == 0 .. 255

SeqsUpTo(S, n) == UNION {[1 .. k -> S] : k \in 0 .. n}

\* the payload of a generated frame: L bytes that differ from place to place
Payload(L, seed) == [i \in 1 .. L |-> (seed + 3 * i) % 256]

LenField(form, L) == CASE form = 7 -> L [] form = 16 -> 126 [] form = 64 -> 127

ExtLen(form, L) ==
    CASE form = 7 -> <<>>
      [] form = 16 -> <<L \div 256, L % 256>>
      [] form = 64 -> <<0, 0, 0, 0, (L \div (256 * Limb)) % 256,
                        (L \div Limb) % 256, (L \div 256) % 256, L % 256>>

\* header length without the key
HdrLen(form) == 2 + Len(ExtLen(form, 0))

\* the length encodings that can carry L
Forms(L) ==
    {f \in {7, 16, 64} : (f = 7 => L <= 125) /\ (f = 16 => L < Limb)}

MkFrame(fin, opn, masked, form, L, key, seed) ==
    <<(IF fin THEN 128 ELSE 0) + opn, (IF masked THEN 128 ELSE 0) + LenField(form, L)>>
    \o ExtLen(form, L) \o (IF masked THEN key ELSE <<>>) \o Payload(L, seed)

DefinedOps == {0, 1, 2, 8, 9, 10}
Keys == {<<1, 2, 3, 4>>, <<222, 173, 190, 239>>}
Byte1Vals == {0, 1, 125, 126, 127, 128, 129, 253, 254, 255}
TailBytes == {0, 255}
\* what may follow a frame in the buffer: nothing, the start of a next frame,
\* a whole next frame, two frames
Suffixes == {<<>>, <<129>>, <<129, 5, 72>>, <<129, 0>>, <<138, 1, 7, 129, 0>>}
\* the lengths named for the three encodings, each in its shortest encoding
EdgeLens == {0, 125, 126, 65535, 65536}
EdgeForm(L) == IF L <= 125 THEN 7 ELSE IF L < Limb THEN 16 ELSE 64
\* 64-bit length fields: near 2^64, 2^32 and above, small
WideLens ==
    {<<255, 255, 255, 255, 255, 255, 255, 255>>,
     <<255, 255, 255, 255, 255, 255, 255, 240>>,
     <<0, 0, 0, 0, 255, 255, 255, 255>>,
     <<0, 0, 0, 1, 0, 0, 0, 0>>,
     <<0, 0, 0, 1, 0, 0, 0, 3>>,
     <<0, 0, 0, 0, 0, 0, 0, 3>>}

NoGen == [valid |-> FALSE, frame_len |-> 0, hdr |-> 0, masked |-> FALSE, L |-> 0]
\* the input starts with (or is cut from) a well-formed frame of frame_len
\* bytes with a header of hdr bytes before the key, and a payload of L bytes
GenOf(form, masked, L) ==
    [valid |-> TRUE,
     frame_len |-> HdrLen(form) + (IF masked THEN 4 ELSE 0) + L,
     hdr |-> HdrLen(form), masked |-> masked, L |-> L]

\* any first byte, a choice of second bytes, a short tail
InitArbitrary ==
    \E b0 \in Byte, b1 \in Byte1Vals, t \in SeqsUpTo(TailBytes, MaxTail) :
        /\ bytes = <<b0, b1>> \o t
        /\ gen = NoGen

\* fewer than two bytes
InitShort ==
    /\ bytes \in SeqsUpTo({0, 129, 255}, 1)
    /\ gen = NoGen

\* a well-formed frame with a small payload, cut anywhere or followed by more
InitFrame ==
    \E fin \in BOOLEAN, opn \in DefinedOps, masked \in BOOLEAN,
       L \in 0 .. MaxPayload, key \in Keys :
      \E form \in Forms(L) :
        LET F == MkFrame(fin, opn, masked, form, L, key, 65) IN
        /\ gen = GenOf(form, masked, L)
        /\ \/ \E cut \in 0 .. Len(F) - 1 : bytes = SubSeq(F, 1, cut)
           \/ \E S \in Suffixes : bytes = F \o S

\* exactly one frame whose payload length is one of EdgeLens
InitEdge ==
    \E fin \in BOOLEAN, opn \in {1, 2}, masked \in BOOLEAN, L \in EdgeLens :
        /\ bytes = MkFrame(fin, opn, masked, EdgeForm(L), L, <<1, 2, 3, 4>>, 65)
        /\ gen = GenOf(EdgeForm(L), masked, L)

\* a 64-bit length field with any declared length, and a few bytes after it
InitWide ==
    \E b0 \in {2, 130}, masked \in BOOLEAN, w \in WideLens, k \in 0 .. MaxWideTail :
        /\ bytes = <<b0, (IF masked THEN 128 ELSE 0) + 127>> \o w \o Payload(k, 65)
        /\ gen = NoGen

MainIdle ==
    /\ sock = <<>>
    /\ received = <<>>
    /\ current_parse = <<>>
    /\ consumed_total = 0
    /\ printed = <<>>
    /\ pc = "idle"

Init ==
    /\ build \in Builds
    /\ result = NotCalled
    /\ InitArbitrary \/ InitShort \/ InitFrame \/ InitEdge \/ InitWide
    /\ MainIdle

\* the caller invokes parse_frame(&bytes)
Call ==
    /\ result = NotCalled
    /\ result' = parse_frame(bytes)
    /\ UNCHANGED <<build, gen, bytes, mainVars>>

Next == Call

Spec == Init /\ [][Next]_vars

---------------------------------------------------------------------------
(* main: the handler of one accepted connection *)

BufSize == 256      \* vec![0; 256]
MaxSock == 3        \* bytes the peer sends
MaxIter == 3        \* the loop runs while current_parse is shorter than MaxIter * BufSize
PeerBytes == {129, 0, 143}

\* let mut buffer = vec![0; 256];
ZeroBuffer == [i \in 1 .. BufSize |-> 0]

\* conn.read(&mut buffer);  The call builds a future and the statement drops it:
\* it is neither awaited nor polled, so nothing is read from the connection
\* and nothing is written to the buffer.
ReadDropped(s, buffer) == [sock |-> s, buffer |-> buffer, got |-> <<>>]

\* the peer writes one byte to the connection
PeerSend ==
    /\ pc # "idle"
    /\ Len(sock) < MaxSock
    /\ \E b \in PeerBytes : sock' = Append(sock, b)
    /\ UNCHANGED <<build, gen, bytes, result, received, current_parse,
                   consumed_total, printed, pc>>

\* one pass through the body of `loop { ... }`
LoopIteration ==
    /\ pc = "loop"
    /\ Len(current_parse) < MaxIter * BufSize
    /\ LET rd == ReadDropped(sock, ZeroBuffer)
           \* current_parse.append(&mut buffer): all BufSize bytes of it
           cp == current_parse \o rd.buffer
           r == parse_frame(cp)
       IN  /\ sock' = rd.sock
           /\ received' = received \o rd.got
           /\ bytes' = cp
           /\ result' = r
           /\ CASE r.tag = "Ok" ->
                    /\ current_parse' = Slice(cp, r.consumed, Len(cp))
                    /\ consumed_total' = consumed_total + r.consumed
                    /\ printed' = Append(printed, r)
                    /\ pc' = "loop"
                [] r.tag = "Err" /\ r.err = "Unfinished" ->
                    /\ current_parse' = cp
                    /\ UNCHANGED <<consumed_total, printed>>
                    /\ pc' = "loop"
                [] r.tag = "Err" /\ r.err # "Unfinished" ->
                    /\ current_parse' = cp
                    /\ printed' = Append(printed, r)
                    /\ UNCHANGED consumed_total
                    /\ pc' = "done"
                [] OTHER ->
                    /\ current_parse' = cp
                    /\ UNCHANGED <<consumed_total, printed>>
                    /\ pc' = "panicked"
    /\ UNCHANGED <<build, gen>>

InitMain ==
    /\ build \in Builds
    /\ gen = NoGen
    /\ bytes = <<>>
    /\ result = NotCalled
    /\ sock = <<>>
    /\ received = <<>>
    /\ current_parse = <<>>         \* let mut current_parse = Vec::new();
    /\ consumed_total = 0
    /\ printed = <<>>
    /\ pc = "loop"

NextMain == PeerSend \/ LoopIteration

SpecMain == InitMain /\ [][NextMain]_vars

---------------------------------------------------------------------------
(* Vocabulary of the properties, read off the input bytes alone *)

Called == result # NotCalled

\* bits 6..4 of a byte, as a number 0..7
RsvOf(b) == (b \div 16) % 8
\* bits 3..0 of a byte
NibbleOf(b) == b % 16
\* bit 7 of a byte
TopBit(b) == b \div 128 = 1

\* the opcode the protocol assigns to a nibble
ProtocolOp(n) ==
    CASE n = 0 -> "Continuation" [] n = 1 -> "Text" [] n = 2 -> "Binary"
      [] n = 8 -> "Close" [] n = 9 -> "Ping" [] n = 10 -> "Pong"
      [] OTHER -> "reserved"

\* number of extended length bytes announced by byte 1
ExtOf(b1) == CASE b1 % 128 = 126 -> 2 [] b1 % 128 = 127 -> 8 [] OTHER -> 0

\* the payload length a complete header declares, as a 64-bit limb vector
DeclaredLen(s) ==
    CASE s[2] % 128 = 126 -> <<0, 0, 0, s[3] * 256 + s[4]>>
      [] s[2] % 128 = 127 ->
            <<s[3] * 256 + s[4], s[5] * 256 + s[6], s[7] * 256 + s[8], s[9] * 256 + s[10]>>
      [] OTHER -> <<0, 0, 0, s[2] % 128>>

\* offset of the payload: 2 + extended length bytes + key bytes
PayloadStart(s) == 2 + ExtOf(s[2]) + (IF TopBit(s[2]) THEN 4 ELSE 0)

\* the input is a strict prefix of a well-formed frame
IsStrictPrefix == gen.valid /\ Len(bytes) < gen.frame_len
\* the input is a well-formed frame followed by zero or more bytes
StartsWithFrame == gen.valid /\ Len(bytes) >= gen.frame_len
\* the input is exactly one well-formed frame
IsOneFrame == gen.valid /\ Len(bytes) = gen.frame_len

\* the frame F with its MASK bit cleared and its key removed
Unmasked(F) ==
    <<F[1], F[2] - 128>> \o SubSeq(F, 3, gen.hdr) \o SubSeq(F, gen.hdr + 5, Len(F))

\* s without its first n elements
Drop(s, n) == SubSeq(s, n + 1, Len(s))

---------------------------------------------------------------------------
(* The properties *)

\* C1: parse_frame on a strict prefix of a well-formed frame returns
\* Err(Unfinished): no other error, no Ok, no panic.
C1_PrefixIsUnfinished ==
    (Called /\ IsStrictPrefix) => result = Err("Unfinished")

\* C1 holds of the frames without a key (supporting fact).
C1_UnmaskedPrefixIsUnfinished ==
    (Called /\ IsStrictPrefix /\ ~gen.masked) => result = Err("Unfinished")

\* C2: parse_frame is total: on every slice it returns Ok or one of the three
\* ParseError values; it never panics.
C2_Total ==
    Called => \/ result.tag = "Ok"
              \/ result.tag = "Err" /\ result.err \in ParseError

\* C3: on success is_last_frag is true exactly when bit 7 of byte 0 is set.
C3_FinIsBit7 ==
    result.tag = "Ok" => (result.frame.is_last_frag <=> TopBit(bytes[1]))

\* C4: on success consumed <= length of the slice, consumed = payload start +
\* declared payload length, the payload has the declared length and is the
\* slice from the payload start to consumed.
C4_ConsumedAndPayload ==
    result.tag = "Ok" =>
        LET start == PayloadStart(bytes)
            declared == DeclaredLen(bytes)
        IN  /\ result.consumed <= Len(bytes)
            /\ declared[1] = 0 /\ declared[2] = 0
            /\ Wide(result.consumed - start) = declared
            /\ Wide(Len(result.frame.payload)) = declared
            /\ result.frame.payload = Slice(bytes, start, result.consumed)

\* C4 holds where usize is as wide as the length field (supporting fact).
C4_ConsumedAndPayload64 ==
    build.pointer_width = 64 => C4_ConsumedAndPayload

\* C5: bytes after a complete well-formed frame F do not change the result:
\* parse_frame(F ++ S) = parse_frame(F) = Ok((length of F, frame)).
C5_SuffixIgnored ==
    (Called /\ StartsWithFrame) =>
        /\ result.tag = "Ok"
        /\ result.consumed = gen.frame_len
        /\ result = parse_frame(SubSeq(bytes, 1, gen.frame_len))

\* C5 holds of the frames without a key (supporting fact).
C5_UnmaskedSuffixIgnored ==
    (Called /\ StartsWithFrame /\ ~gen.masked) =>
        /\ result.tag = "Ok"
        /\ result.consumed = gen.frame_len
        /\ result = parse_frame(SubSeq(bytes, 1, gen.frame_len))

\* C6: a complete masked frame and the same frame without MASK bit and key both
\* decode; the masked one consumes 4 more, its masking_key is Some(the four
\* bytes after the length field, big-endian), the other's is None.
C6_MaskAddsFour ==
    (Called /\ IsOneFrame /\ gen.masked) =>
        LET twin == parse_frame(Unmasked(bytes))
            k == SubSeq(bytes, gen.hdr + 1, gen.hdr + 4)
        IN  /\ result.tag = "Ok"
            /\ twin.tag = "Ok"
            /\ result.consumed = twin.consumed + 4
            /\ result.frame.masking_key = Some(<<k[1] * 256 + k[2], k[3] * 256 + k[4]>>)
            /\ twin.frame.masking_key = None

\* C7: a slice of at least 2 bytes whose byte 0 has one of bits 6, 5, 4 set
\* yields Err(ReservedBit), whatever the opcode nibble, FIN and the rest are.
C7_ReservedBit ==
    (Called /\ Len(bytes) >= 2 /\ RsvOf(bytes[1]) # 0) => result = Err("ReservedBit")

\* C7's case: FIN set, bits 6 and 4 set, a reserved opcode nibble, and a 64-bit
\* length field that is cut off.
C7_Witness ==
    /\ bytes = <<223, 127, 255>>
    /\ result = Err("ReservedBit")

\* C8: with bits 6-4 of byte 0 clear and at least 2 bytes, a nibble outside the
\* table yields Err(ReservedOpCode) whatever follows; a nibble of the table
\* never does, and on success op_code is the table's value.
C8_OpCode ==
    (Called /\ Len(bytes) >= 2 /\ RsvOf(bytes[1]) = 0) =>
        IF ProtocolOp(NibbleOf(bytes[1])) = "reserved"
        THEN result = Err("ReservedOpCode")
        ELSE /\ result # Err("ReservedOpCode")
             /\ result.tag = "Ok" => result.frame.op_code = ProtocolOp(NibbleOf(bytes[1]))

\* C8's case: nibble 0x3 with FIN set, in front of a masked length field that
\* is cut off.
C8_Witness ==
    /\ bytes = <<131, 254, 255>>
    /\ result = Err("ReservedOpCode")

\* C8's other case: a Pong frame decodes with op_code Pong.
C8_WitnessOk ==
    /\ bytes = <<138, 0>>
    /\ result.tag = "Ok"
    /\ result.frame.op_code = "Pong"

\* C9: a slice holding exactly one frame whose payload length is 0, 125, 126,
\* 65535 or 65536 decodes with consumed = length of the slice and a payload of
\* that length.
C9_EdgeLengths ==
    (Called /\ IsOneFrame /\ gen.L \in EdgeLens) =>
        /\ result.tag = "Ok"
        /\ result.consumed = Len(bytes)
        /\ Len(result.frame.payload) = gen.L

\* C9 holds of the frames without a key (supporting fact).
C9_UnmaskedEdgeLengths ==
    (Called /\ IsOneFrame /\ gen.L \in EdgeLens /\ ~gen.masked) =>
        /\ result.tag = "Ok"
        /\ result.consumed = Len(bytes)
        /\ Len(result.frame.payload) = gen.L
        /\ result.frame.payload = Payload(gen.L, 65)

\* C10: the slice main hands to parse_frame is the bytes received on the
\* connection and not consumed by an earlier successful decode.
C10_BufferIsUnconsumedStream ==
    Called => bytes = Drop(received, consumed_total - result.consumed)

=============================================================================
